---- MODULE Spec2Model ----
(***************************************************************************)
(* Marine health classifier (classify_marine_health), its decision         *)
(* evaluator (eval_decisions), the C2 coverage harness (main of            *)
(* c2_branch_tests_marine_health.py) and the CSV writers of                *)
(* marine_health_testing.py.                                               *)
(*                                                                         *)
(* A reading is a Python float.  A finite float with at most five decimal  *)
(* places is modelled exactly as an integer number of 1e-5 units; NaN and  *)
(* the two infinities are values of their own, compared as IEEE-754        *)
(* compares them.                                                          *)
(***************************************************************************)
EXTENDS Integers, Sequences, FiniteSets, TLC

VARIABLES
    mode,       \* which program runs: "fn", "c2" or "csv"
    pc,         \* position of the running program
    inp,        \* the four readings of the call under study (fn mode)
    out,        \* outcome of classify_marine_health(**inp)
    dec,        \* mapping returned by eval_decisions(**inp)
    tests,      \* main: the corpus iterated by the first loop (TESTS)
    errtests,   \* main: the corpus iterated by the second loop (ERROR_TESTS)
    rows,       \* CSV writer: the rows to write
    idx,        \* number of corpus cases whose loop body was entered
    cov,        \* main: decision name -> set of observed truth values
    passed,     \* main: number of passing cases
    log,        \* what each case left behind (printed line / CSV row)
    seen,       \* history: the inputs eval_decisions was run on, in order
    verdict,    \* main: the final [RESULT] line
    missing     \* main: the decisions reported as lacking an outcome

vars == <<mode, pc, inp, out, dec, tests, errtests, rows, idx, cov, passed,
          log, seen, verdict, missing>>

---------------------------------------------------------------------------
(* Bounds of the model *)

\* how many 1e-5 steps on either side of each threshold the inputs cover
Spread == 1
\* longest corpus (other than the literal ones) a harness is run on
MaxCorpus == 2

---------------------------------------------------------------------------
(* Python floats *)

\* the decimal whole.frac5 (frac5 in 1e-5 units) as a number of 1e-5 units
Dec(whole, frac5) == whole * 100000 + frac5

Fin(n) == [kind |-> "fin", v |-> n]
NaN == [kind |-> "nan", v |-> 0]
PosInf == [kind |-> "inf", v |-> 0]
NegInf == [kind |-> "ninf", v |-> 0]

\* a float literal of the source
Lit(whole, frac5) == Fin(Dec(whole, frac5))

Rank(x) == CASE x.kind = "ninf" -> 0
             [] x.kind = "fin" -> 1
             [] x.kind = "inf" -> 2
             [] OTHER -> 3

\* a < b on floats: false whenever NaN is involved
PyLt(a, b) ==
    IF a.kind = "nan" \/ b.kind = "nan" THEN FALSE
    ELSE IF a.kind = "fin" /\ b.kind = "fin" THEN a.v < b.v
    ELSE Rank(a) < Rank(b)

\* a <= b on floats
PyLe(a, b) ==
    IF a.kind = "nan" \/ b.kind = "nan" THEN FALSE
    ELSE IF a.kind = "fin" /\ b.kind = "fin" THEN a.v <= b.v
    ELSE Rank(a) <= Rank(b)

PyGt(a, b) == PyLt(b, a)
PyGe(a, b) == PyLe(b, a)

\* not (math.isnan(val) or math.isinf(val)) for a float val
IsFiniteNumber(val) == val.kind = "fin"

---------------------------------------------------------------------------
(* classify_marine_health *)

bucket_temp(t) ==
    IF PyLe(Lit(24, 0), t) /\ PyLe(t, Lit(28, 0)) THEN "safe"
    ELSE IF (PyLe(Lit(22, 0), t) /\ PyLt(t, Lit(24, 0)))
            \/ (PyLt(Lit(28, 0), t) /\ PyLe(t, Lit(30, 0))) THEN "moderate"
    ELSE "high"

bucket_sal(s) ==
    IF PyLe(Lit(30, 0), s) /\ PyLe(s, Lit(35, 0)) THEN "safe"
    ELSE IF (PyLe(Lit(28, 0), s) /\ PyLt(s, Lit(30, 0)))
            \/ (PyLt(Lit(35, 0), s) /\ PyLe(s, Lit(37, 0))) THEN "moderate"
    ELSE "high"

\* bucket_do with the lower edge of the moderate band given to "high"
bucket_do_HighAt4(o) ==
    IF PyGe(o, Lit(6, 0)) THEN "safe"
    ELSE IF PyLe(o, Lit(4, 0)) THEN "high"
    ELSE "moderate"

bucket_do(o) ==
    IF PyGe(o, Lit(6, 0)) THEN "safe"
    ELSE IF PyLt(o, Lit(4, 0)) THEN "high"
    ELSE "moderate"

\* bucket_nh3 with the upper edge of the safe band left out
bucket_nh3_SafeBelow(a) ==
    IF PyLt(a, Lit(0, 2000)) THEN "safe"
    ELSE IF PyGt(a, Lit(0, 5000)) THEN "high"
    ELSE "moderate"

bucket_nh3(a) ==
    IF PyLe(a, Lit(0, 2000)) THEN "safe"
    ELSE IF PyGt(a, Lit(0, 5000)) THEN "high"
    ELSE "moderate"

\* the validation loop: some value is NaN or infinite
NotFinite(temp_c, sal_psu, do_mgL, nh3_mgL) ==
    \E val \in {temp_c, sal_psu, do_mgL, nh3_mgL} : ~IsFiniteNumber(val)

\* the range check rejecting ammonia 0.0 as well
InvalidRange_Nh3Strict(temp_c, sal_psu, do_mgL, nh3_mgL) ==
    \/ PyLe(temp_c, Lit(0, 0))
    \/ PyLe(sal_psu, Lit(0, 0))
    \/ PyLe(do_mgL, Lit(0, 0))
    \/ PyLe(nh3_mgL, Lit(0, 0))

\* the range check letting temperature 0.0 through
InvalidRange_TempNegativeOnly(temp_c, sal_psu, do_mgL, nh3_mgL) ==
    \/ PyLt(temp_c, Lit(0, 0))
    \/ PyLe(sal_psu, Lit(0, 0))
    \/ PyLe(do_mgL, Lit(0, 0))
    \/ PyLt(nh3_mgL, Lit(0, 0))

\* the range check that follows the loop
InvalidRange(temp_c, sal_psu, do_mgL, nh3_mgL) ==
    \/ PyLe(temp_c, Lit(0, 0))
    \/ PyLe(sal_psu, Lit(0, 0))
    \/ PyLe(do_mgL, Lit(0, 0))
    \/ PyLt(nh3_mgL, Lit(0, 0))

\* the dict built in alphabetical instead of enumeration order
FactorItems_Alphabetical(temp_c, sal_psu, do_mgL, nh3_mgL) ==
    << <<"ammonia", bucket_nh3(nh3_mgL)>>,
       <<"dissolved_oxygen", bucket_do(do_mgL)>>,
       <<"salinity", bucket_sal(sal_psu)>>,
       <<"temp", bucket_temp(temp_c)>> >>

\* the dict `factors`, as its items in insertion order
FactorItems(temp_c, sal_psu, do_mgL, nh3_mgL) ==
    << <<"temp", bucket_temp(temp_c)>>,
       <<"salinity", bucket_sal(sal_psu)>>,
       <<"dissolved_oxygen", bucket_do(do_mgL)>>,
       <<"ammonia", bucket_nh3(nh3_mgL)>> >>

\* b in factors.values()
InValues(b, items) == \E i \in 1..Len(items) : items[i][2] = b

\* the aggregation testing "moderate" before "high"
Aggregate_ModerateFirst(items) ==
    IF InValues("moderate", items) THEN "medium"
    ELSE IF InValues("high", items) THEN "high"
    ELSE "low"

Aggregate(items) ==
    IF InValues("high", items) THEN "high"
    ELSE IF InValues("moderate", items) THEN "medium"
    ELSE "low"

NotSafe(item) == item[2] # "safe"

\* [k for k, v in factors.items() if v != "safe"]
FactorNames(items) ==
    LET kept == SelectSeq(items, NotSafe)
    IN  [i \in 1..Len(kept) |-> kept[i][1]]

\* the outcome of a call that raised: nothing is returned
Raised(msg) == [status |-> "ValueError", msg |-> msg,
                risk |-> "none", factors |-> <<>>]

Returned(risk, factors) == [status |-> "returned", msg |-> "",
                            risk |-> risk, factors |-> factors]

\* no call made yet
NoCall == [status |-> "pending", msg |-> "", risk |-> "none", factors |-> <<>>]

classify_marine_health(temp_c, sal_psu, do_mgL, nh3_mgL) ==
    IF NotFinite(temp_c, sal_psu, do_mgL, nh3_mgL)
    THEN Raised("must be a finite number.")
    ELSE IF InvalidRange(temp_c, sal_psu, do_mgL, nh3_mgL)
    THEN Raised("Invalid physical ranges.")
    ELSE LET items == FactorItems(temp_c, sal_psu, do_mgL, nh3_mgL)
         IN  Returned(Aggregate(items), FactorNames(items))

\* classify_marine_health(**inp)
Classify(i) == classify_marine_health(i.temp_c, i.sal_psu, i.do_mgL, i.nh3_mgL)

---------------------------------------------------------------------------
(* eval_decisions *)

\* the list of names out of step with the evaluator's keys
DECISIONS_Renamed ==
    << "VAL_temp_gt0", "VAL_sal_gt0", "VAL_do_gt0", "VAL_nh3_ge0",
       "T_safe_24_28", "T_moderate_22_24_or_28_30",
       "S_safe_30_35", "S_moderate_28_30_or_35_37",
       "DO_safe_ge6", "DO_high_lt4",
       "NH3_safe_le_0_02", "NH3_high_gt_0_05",
       "AGG_any_high", "AGG_has_moderate" >>

DECISIONS ==
    << "VAL_temp_gt0", "VAL_sal_gt0", "VAL_do_gt0", "VAL_nh3_ge0",
       "T_safe_24_28", "T_moderate_22_24_or_28_30",
       "S_safe_30_35", "S_moderate_28_30_or_35_37",
       "DO_safe_ge6", "DO_high_lt4",
       "NH3_safe_le_0_02", "NH3_high_gt_0_05",
       "AGG_has_high", "AGG_has_moderate" >>

eval_decisions(temp_c, sal_psu, do_mgL, nh3_mgL) ==
    LET t_safe == PyLe(Lit(24, 0), temp_c) /\ PyLe(temp_c, Lit(28, 0))
        t_mod == (PyLe(Lit(22, 0), temp_c) /\ PyLt(temp_c, Lit(24, 0)))
                 \/ (PyLt(Lit(28, 0), temp_c) /\ PyLe(temp_c, Lit(30, 0)))
        s_safe == PyLe(Lit(30, 0), sal_psu) /\ PyLe(sal_psu, Lit(35, 0))
        s_mod == (PyLe(Lit(28, 0), sal_psu) /\ PyLt(sal_psu, Lit(30, 0)))
                 \/ (PyLt(Lit(35, 0), sal_psu) /\ PyLe(sal_psu, Lit(37, 0)))
        do_safe == PyGe(do_mgL, Lit(6, 0))
        do_high == PyLt(do_mgL, Lit(4, 0))
        nh3_safe == PyLe(nh3_mgL, Lit(0, 2000))
        nh3_high == PyGt(nh3_mgL, Lit(0, 5000))
        any_high == \/ (~t_safe /\ ~t_mod)
                    \/ (~s_safe /\ ~s_mod)
                    \/ do_high
                    \/ (~nh3_safe /\ nh3_high)
        any_mod == ~any_high /\ (\/ t_mod
                                 \/ s_mod
                                 \/ (~do_safe /\ ~do_high)
                                 \/ (~nh3_safe /\ ~nh3_high))
    IN  [ VAL_temp_gt0 |-> PyGt(temp_c, Lit(0, 0)),
          VAL_sal_gt0 |-> PyGt(sal_psu, Lit(0, 0)),
          VAL_do_gt0 |-> PyGt(do_mgL, Lit(0, 0)),
          VAL_nh3_ge0 |-> PyGe(nh3_mgL, Lit(0, 0)),
          T_safe_24_28 |-> t_safe,
          T_moderate_22_24_or_28_30 |-> t_mod,
          S_safe_30_35 |-> s_safe,
          S_moderate_28_30_or_35_37 |-> s_mod,
          DO_safe_ge6 |-> do_safe,
          DO_high_lt4 |-> do_high,
          NH3_safe_le_0_02 |-> nh3_safe,
          NH3_high_gt_0_05 |-> nh3_high,
          AGG_has_high |-> any_high,
          AGG_has_moderate |-> any_mod ]

\* eval_decisions(**inp)
EvalDecisions(i) == eval_decisions(i.temp_c, i.sal_psu, i.do_mgL, i.nh3_mgL)

\* the empty dict
NoDec == [k \in {} |-> FALSE]

---------------------------------------------------------------------------
(* The literal tables *)

Reading(t, s, o, a) == [temp_c |-> t, sal_psu |-> s, do_mgL |-> o, nh3_mgL |-> a]

\* one entry of TESTS / one row of a CSV table
Case(name, t, s, o, a, expected) ==
    [name |-> name, inp |-> Reading(t, s, o, a), expected |-> expected]

\* one entry of ERROR_TESTS
ErrCase(name, t, s, o, a) == [name |-> name, inp |-> Reading(t, s, o, a)]

TESTS ==
    << Case("ALL_SAFE", Lit(26, 0), Lit(32, 0), Lit(7, 0), Lit(0, 500), "low"),
       Case("TEMP_MOD", Lit(22, 50000), Lit(32, 0), Lit(7, 0), Lit(0, 500), "medium"),
       Case("TEMP_HIGH", Lit(20, 0), Lit(32, 0), Lit(7, 0), Lit(0, 500), "high"),
       Case("SAL_MOD", Lit(26, 0), Lit(29, 0), Lit(7, 0), Lit(0, 500), "medium"),
       Case("SAL_HIGH", Lit(26, 0), Lit(27, 0), Lit(7, 0), Lit(0, 500), "high"),
       Case("DO_MOD", Lit(26, 0), Lit(32, 0), Lit(5, 0), Lit(0, 500), "medium"),
       Case("DO_HIGH", Lit(26, 0), Lit(32, 0), Lit(3, 0), Lit(0, 500), "high"),
       Case("NH3_MOD", Lit(26, 0), Lit(32, 0), Lit(7, 0), Lit(0, 3000), "medium"),
       Case("NH3_HIGH", Lit(26, 0), Lit(32, 0), Lit(7, 0), Lit(0, 6000), "high") >>

\* the error corpus without its negative-ammonia case
ERROR_TESTS_NoNh3 ==
    << ErrCase("VAL_temp_le0", Lit(0, 0), Lit(32, 0), Lit(7, 0), Lit(0, 0)),
       ErrCase("VAL_sal_le0", Lit(26, 0), Lit(0, 0), Lit(7, 0), Lit(0, 0)),
       ErrCase("VAL_do_le0", Lit(26, 0), Lit(32, 0), Lit(0, 0), Lit(0, 0)) >>

ERROR_TESTS ==
    << ErrCase("VAL_temp_le0", Lit(0, 0), Lit(32, 0), Lit(7, 0), Lit(0, 0)),
       ErrCase("VAL_sal_le0", Lit(26, 0), Lit(0, 0), Lit(7, 0), Lit(0, 0)),
       ErrCase("VAL_do_le0", Lit(26, 0), Lit(32, 0), Lit(0, 0), Lit(0, 0)),
       ErrCase("VAL_nh3_lt0", Lit(26, 0), Lit(32, 0), Lit(7, 0), Lit(0, -100)) >>

decision_table_rows ==
    << Case("ALL_SAFE", Lit(26, 0), Lit(32, 0), Lit(7, 0), Lit(0, 500), "low"),
       Case("TEMP_MOD", Lit(22, 50000), Lit(32, 0), Lit(7, 0), Lit(0, 500), "medium"),
       Case("SAL_MOD", Lit(26, 0), Lit(29, 0), Lit(7, 0), Lit(0, 500), "medium"),
       Case("DO_MOD", Lit(26, 0), Lit(32, 0), Lit(5, 0), Lit(0, 500), "medium"),
       Case("NH3_MOD", Lit(26, 0), Lit(32, 0), Lit(7, 0), Lit(0, 3000), "medium"),
       Case("TEMP_HIGH", Lit(20, 0), Lit(32, 0), Lit(7, 0), Lit(0, 500), "high"),
       Case("SAL_HIGH", Lit(26, 0), Lit(27, 0), Lit(7, 0), Lit(0, 500), "high"),
       Case("DO_HIGH", Lit(26, 0), Lit(32, 0), Lit(3, 0), Lit(0, 500), "high"),
       Case("NH3_HIGH", Lit(26, 0), Lit(32, 0), Lit(7, 0), Lit(0, 6000), "high"),
       Case("HYPOXIA_EMERGENCY", Lit(26, 0), Lit(32, 0), Lit(1, 50000), Lit(0, 0), "high"),
       Case("MIXED_HIGH_DOM", Lit(23, 0), Lit(29, 50000), Lit(3, 50000), Lit(0, 1000), "high"),
       Case("MULTI_MODERATES", Lit(23, 50000), Lit(36, 0), Lit(5, 50000), Lit(0, 1000), "medium") >>

boundary_cases_rows ==
    << Case("TEMP_SAFE_LO", Lit(24, 0), Lit(32, 0), Lit(7, 0), Lit(0, 0), "low"),
       Case("TEMP_BELOW_SAFE", Lit(23, 99000), Lit(32, 0), Lit(7, 0), Lit(0, 0), "medium"),
       Case("TEMP_SAFE_HI", Lit(28, 0), Lit(32, 0), Lit(7, 0), Lit(0, 0), "low"),
       Case("TEMP_ABOVE_SAFE", Lit(28, 1000), Lit(32, 0), Lit(7, 0), Lit(0, 0), "medium"),
       Case("TEMP_LOW_HIGH", Lit(21, 90000), Lit(32, 0), Lit(7, 0), Lit(0, 0), "high"),
       Case("TEMP_HIGH_HIGH", Lit(30, 10000), Lit(32, 0), Lit(7, 0), Lit(0, 0), "high"),
       Case("SAL_SAFE_LO", Lit(26, 0), Lit(30, 0), Lit(7, 0), Lit(0, 0), "low"),
       Case("SAL_BELOW_SAFE", Lit(26, 0), Lit(29, 99000), Lit(7, 0), Lit(0, 0), "medium"),
       Case("SAL_SAFE_HI", Lit(26, 0), Lit(35, 0), Lit(7, 0), Lit(0, 0), "low"),
       Case("SAL_ABOVE_SAFE", Lit(26, 0), Lit(35, 1000), Lit(7, 0), Lit(0, 0), "medium"),
       Case("SAL_LOW_HIGH", Lit(26, 0), Lit(27, 90000), Lit(7, 0), Lit(0, 0), "high"),
       Case("SAL_HIGH_HIGH", Lit(26, 0), Lit(37, 10000), Lit(7, 0), Lit(0, 0), "high"),
       Case("DO_SAFE", Lit(26, 0), Lit(32, 0), Lit(6, 0), Lit(0, 0), "low"),
       Case("DO_MOD_BELOW_SAFE", Lit(26, 0), Lit(32, 0), Lit(5, 99000), Lit(0, 0), "medium"),
       Case("DO_MOD_EDGE", Lit(26, 0), Lit(32, 0), Lit(4, 0), Lit(0, 0), "medium"),
       Case("DO_HIGH", Lit(26, 0), Lit(32, 0), Lit(3, 99000), Lit(0, 0), "high"),
       Case("DO_EMERGENCY", Lit(26, 0), Lit(32, 0), Lit(1, 99000), Lit(0, 0), "high"),
       Case("NH3_SAFE", Lit(26, 0), Lit(32, 0), Lit(7, 0), Lit(0, 2000), "low"),
       Case("NH3_MOD_BELOW_HIGH", Lit(26, 0), Lit(32, 0), Lit(7, 0), Lit(0, 2001), "medium"),
       Case("NH3_MOD_EDGE", Lit(26, 0), Lit(32, 0), Lit(7, 0), Lit(0, 5000), "medium"),
       Case("NH3_HIGH", Lit(26, 0), Lit(32, 0), Lit(7, 0), Lit(0, 5001), "high"),
       Case("AGGR_HIGH_DOM", Lit(23, 0), Lit(29, 0), Lit(3, 90000), Lit(0, 4000), "high"),
       Case("AGGR_ANY_MOD", Lit(23, 0), Lit(32, 0), Lit(7, 0), Lit(0, 0), "medium"),
       Case("AGGR_ALL_SAFE", Lit(26, 0), Lit(32, 0), Lit(7, 0), Lit(0, 0), "low") >>

---------------------------------------------------------------------------
(* Inputs the model is run on *)

Range(seq) == {seq[i] : i \in 1..Len(seq)}

\* the sequences over S of length at most n
RECURSIVE SeqsUpTo(_, _)
SeqsUpTo(S, n) ==
    IF n = 0 THEN {<<>>}
    ELSE LET shorter == SeqsUpTo(S, n - 1)
         IN  shorter \cup {Append(q, x) : q \in shorter, x \in S}

\* the floats within Spread steps of 1e-5 of the decimal whole.frac5
Around(whole, frac5) == {Fin(Dec(whole, frac5) + d) : d \in -Spread..Spread}

NonFinite == {NaN, PosInf, NegInf}

TempInputs ==
    Around(0, 0) \cup Around(22, 0) \cup Around(24, 0) \cup Around(28, 0)
    \cup Around(30, 0) \cup {Lit(26, 0)} \cup NonFinite

SalInputs ==
    Around(0, 0) \cup Around(28, 0) \cup Around(30, 0) \cup Around(35, 0)
    \cup Around(37, 0) \cup {Lit(32, 0)} \cup NonFinite

DoInputs ==
    Around(0, 0) \cup Around(4, 0) \cup Around(6, 0) \cup {Lit(7, 0)}
    \cup NonFinite

Nh3Inputs ==
    Around(0, 0) \cup Around(0, 2000) \cup Around(0, 5000) \cup NonFinite

\* cases a first-loop corpus or a CSV table is drawn from: entries of the
\* literal tables, one whose expectation is wrong, and readings the
\* classifier rejects
CasePool ==
    { TESTS[1], TESTS[2], TESTS[9],
      Case("ALL_SAFE_WRONG", Lit(26, 0), Lit(32, 0), Lit(7, 0), Lit(0, 500), "high"),
      Case("TEMP_ZERO", Lit(0, 0), Lit(32, 0), Lit(7, 0), Lit(0, 0), "high"),
      Case("DO_NAN", Lit(26, 0), Lit(32, 0), NaN, Lit(0, 0), "high") }

\* cases a second-loop corpus is drawn from: entries of ERROR_TESTS, a
\* non-finite reading and a reading the classifier accepts
ErrCasePool ==
    { ERROR_TESTS[1], ERROR_TESTS[2],
      ErrCase("SAL_INF", Lit(26, 0), PosInf, Lit(7, 0), Lit(0, 0)),
      ErrCase("ALL_SAFE", Lit(26, 0), Lit(32, 0), Lit(7, 0), Lit(0, 500)) }

NoInput == Reading(NaN, NaN, NaN, NaN)

---------------------------------------------------------------------------
(* The two functions called on their own *)

FnInit ==
    /\ mode = "fn"
    /\ pc = "call"
    /\ inp \in { Reading(t, s, o, a) :
                    t \in TempInputs, s \in SalInputs,
                    o \in DoInputs, a \in Nh3Inputs }
    /\ out = NoCall
    /\ dec = NoDec
    /\ tests = <<>> /\ errtests = <<>> /\ rows = <<>>
    /\ idx = 0 /\ cov = NoDec /\ passed = 0
    /\ log = <<>> /\ seen = <<>>
    /\ verdict = "" /\ missing = <<>>

CallClassify ==
    /\ mode = "fn"
    /\ out.status = "pending"
    /\ out' = Classify(inp)
    /\ UNCHANGED <<mode, pc, inp, dec, tests, errtests, rows, idx, cov,
                   passed, log, seen, verdict, missing>>

CallEvalDecisions ==
    /\ mode = "fn"
    /\ dec = NoDec
    /\ dec' = EvalDecisions(inp)
    /\ UNCHANGED <<mode, pc, inp, out, tests, errtests, rows, idx, cov,
                   passed, log, seen, verdict, missing>>

FnNext == CallClassify \/ CallEvalDecisions

SpecFn == FnInit /\ [][FnNext]_vars

---------------------------------------------------------------------------
(* main of c2_branch_tests_marine_health.py *)

\* cov = {name: set() for name in DECISIONS}
EmptyCov == [name \in Range(DECISIONS) |-> {}]

\* the accumulator overwritten with the latest value instead of added to
CovAdd_Overwrite(c, d) == [k \in DOMAIN c |-> IF k \in DOMAIN d THEN {d[k]} ELSE c[k]]

\* for k, v in dec.items(): cov[k].add(bool(v))
CovAdd(c, d) == [k \in DOMAIN c |-> IF k \in DOMAIN d THEN c[k] \cup {d[k]} ELSE c[k]]

\* cov[k] exists for every key of dec
KeysKnown(c, d) == DOMAIN d \subseteq DOMAIN c

SeenBoth(c, n) == TRUE \in c[n] /\ FALSE \in c[n]

\* both = [n for n in DECISIONS if True in cov[n] and False in cov[n]]
\* missing = [n for n in DECISIONS if n not in both]
Missing(c) ==
    LET Lacks(n) == ~SeenBoth(c, n)
    IN  SelectSeq(DECISIONS, Lacks)

Achieved == "C2 achieved for all tracked decisions."
NotAchieved == "C2 NOT fully achieved for:"

Verdict(miss) == IF miss = <<>> THEN Achieved ELSE NotAchieved

PassFail(ok) == IF ok THEN "PASS" ELSE "FAIL"

C2Init ==
    /\ mode = "c2"
    /\ pc = "tests"
    /\ tests \in {TESTS} \cup SeqsUpTo(CasePool, MaxCorpus)
    /\ errtests \in {ERROR_TESTS} \cup SeqsUpTo(ErrCasePool, MaxCorpus)
    /\ cov = EmptyCov
    /\ passed = 0
    /\ idx = 0
    /\ inp = NoInput /\ out = NoCall /\ dec = NoDec
    /\ rows = <<>>
    /\ log = <<>> /\ seen = <<>>
    /\ verdict = "" /\ missing = <<>>

\* one iteration of `for name, inp, expected in TESTS`
TestCase ==
    /\ mode = "c2" /\ pc = "tests" /\ idx < Len(tests)
    /\ LET c == tests[idx + 1]
           o == Classify(c.inp)
           d == EvalDecisions(c.inp)
           ok == o.risk = c.expected
       IN  /\ idx' = idx + 1
           /\ inp' = c.inp
           /\ out' = o
           /\ IF o.status = "ValueError"
              THEN \* nothing catches it: the traceback ends the run
                   /\ pc' = "ValueError"
                   /\ UNCHANGED <<dec, cov, passed, log, seen>>
              ELSE /\ passed' = passed + (IF ok THEN 1 ELSE 0)
                   /\ dec' = d
                   /\ seen' = Append(seen, c.inp)
                   /\ IF KeysKnown(cov, d)
                      THEN /\ cov' = CovAdd(cov, d)
                           /\ log' = Append(log, [name |-> c.name, risk |-> o.risk,
                                                  result |-> PassFail(ok)])
                           /\ pc' = pc
                      ELSE /\ pc' = "KeyError"
                           /\ UNCHANGED <<cov, log>>
    /\ UNCHANGED <<mode, tests, errtests, rows, verdict, missing>>

\* the first loop is exhausted; the second starts
StartErrorTests ==
    /\ mode = "c2" /\ pc = "tests" /\ idx = Len(tests)
    /\ pc' = "errors"
    /\ idx' = 0
    /\ UNCHANGED <<mode, inp, out, dec, tests, errtests, rows, cov, passed,
                   log, seen, verdict, missing>>

\* one iteration of `for name, inp in ERROR_TESTS`
ErrorCase ==
    /\ mode = "c2" /\ pc = "errors" /\ idx < Len(errtests)
    /\ LET c == errtests[idx + 1]
           o == Classify(c.inp)
           d == EvalDecisions(c.inp)
           ok == o.status = "ValueError"    \* except ValueError: ok = True
       IN  /\ idx' = idx + 1
           /\ inp' = c.inp
           /\ out' = o
           /\ passed' = passed + (IF ok THEN 1 ELSE 0)
           /\ dec' = d
           /\ seen' = Append(seen, c.inp)
           /\ IF KeysKnown(cov, d)
              THEN /\ cov' = CovAdd(cov, d)
                   /\ log' = Append(log, [name |-> c.name, risk |-> o.risk,
                                          result |-> PassFail(ok)])
                   /\ pc' = pc
              ELSE /\ pc' = "KeyError"
                   /\ UNCHANGED <<cov, log>>
    /\ UNCHANGED <<mode, tests, errtests, rows, verdict, missing>>

\* the second loop is exhausted: summary, coverage table and verdict
Report ==
    /\ mode = "c2" /\ pc = "errors" /\ idx = Len(errtests)
    /\ missing' = Missing(cov)
    /\ verdict' = Verdict(Missing(cov))
    /\ pc' = "done"
    /\ UNCHANGED <<mode, inp, out, dec, tests, errtests, rows, idx, cov,
                   passed, log, seen>>

C2Next == TestCase \/ StartErrorTests \/ ErrorCase \/ Report

---------------------------------------------------------------------------
(* write_decision_table_csv and write_boundary_csv *)

CsvInit ==
    /\ mode = "csv"
    /\ pc = "rows"
    /\ rows \in {decision_table_rows, boundary_cases_rows}
                \cup SeqsUpTo(CasePool, MaxCorpus)
    /\ idx = 0
    /\ log = <<>>
    /\ inp = NoInput /\ out = NoCall /\ dec = NoDec
    /\ tests = <<>> /\ errtests = <<>>
    /\ cov = NoDec /\ passed = 0 /\ seen = <<>>
    /\ verdict = "" /\ missing = <<>>

\* one iteration of `for i, r in enumerate(rows, start=1)`
WriteRow ==
    /\ mode = "csv" /\ pc = "rows" /\ idx < Len(rows)
    /\ LET r == rows[idx + 1]
           o == Classify(r.inp)
           result == IF r.expected = o.risk THEN "Pass" ELSE "Fail"
       IN  /\ idx' = idx + 1
           /\ inp' = r.inp
           /\ out' = o
           /\ IF o.status = "ValueError"
              THEN \* nothing catches it: the file is closed and the call fails
                   /\ pc' = "ValueError"
                   /\ log' = log
              ELSE /\ pc' = pc
                   /\ log' = Append(log, [ID |-> idx + 1, Case |-> r.name,
                                          Inputs |-> r.inp, Expected |-> r.expected,
                                          Actual |-> o.risk, Result |-> result])
    /\ UNCHANGED <<mode, dec, tests, errtests, rows, cov, passed, seen,
                   verdict, missing>>

\* the rows are exhausted: the file is closed and the path returned
ReturnPath ==
    /\ mode = "csv" /\ pc = "rows" /\ idx = Len(rows)
    /\ pc' = "done"
    /\ UNCHANGED <<mode, inp, out, dec, tests, errtests, rows, idx, cov,
                   passed, log, seen, verdict, missing>>

CsvNext == WriteRow \/ ReturnPath

---------------------------------------------------------------------------
(* The harnesses *)

HarnessInit == C2Init \/ CsvInit

HarnessNext == C2Next \/ CsvNext

SpecHarness == HarnessInit /\ [][HarnessNext]_vars

---------------------------------------------------------------------------
(* Properties of classify_marine_health and eval_decisions (SpecFn) *)

Readings(i) == {i.temp_c, i.sal_psu, i.do_mgL, i.nh3_mgL}

AllFinite(i) == \A x \in Readings(i) : x.kind = "fin"

Risks == {"low", "medium", "high"}

\* the inputs the contract rejects: a non-finite value, or a finite one
\* outside its physical range
Rejected(i) ==
    \/ \E x \in Readings(i) : x.kind \in {"nan", "inf", "ninf"}
    \/ i.temp_c.kind = "fin" /\ i.temp_c.v <= 0
    \/ i.sal_psu.kind = "fin" /\ i.sal_psu.v <= 0
    \/ i.do_mgL.kind = "fin" /\ i.do_mgL.v <= 0
    \/ i.nh3_mgL.kind = "fin" /\ i.nh3_mgL.v < 0

\* C1: the call raises ValueError exactly when some input is non-finite or
\* temp_c <= 0 or sal_psu <= 0 or do_mgL <= 0 or nh3_mgL < 0; every other
\* call returns a risk; a call that raises produces no risk and no factors.
C1_ValidationIff ==
    out.status # "pending" =>
        /\ out.status \in {"ValueError", "returned"}
        /\ (out.status = "ValueError") <=> Rejected(inp)
        /\ out.status = "returned" => out.risk \in Risks
        /\ out.status = "ValueError" => out.risk = "none" /\ out.factors = <<>>

\* nh3 = -0.00001 alone is rejected, and nh3 = 0.0 is accepted
C1_Witness ==
    \/ /\ out.status = "ValueError"
       /\ inp = Reading(Lit(26, 0), Lit(32, 0), Lit(7, 0), Lit(0, -1))
    \/ /\ out.status = "ValueError"
       /\ inp = Reading(Lit(26, 0), PosInf, Lit(7, 0), Lit(0, 0))

\* the tabulated risk of one reading, in 1e-5 units
TableTemp(v) ==
    IF Dec(24, 0) <= v /\ v <= Dec(28, 0) THEN "low"
    ELSE IF (Dec(22, 0) <= v /\ v < Dec(24, 0)) \/ (Dec(28, 0) < v /\ v <= Dec(30, 0))
         THEN "medium"
    ELSE "high"

TableSal(v) ==
    IF Dec(30, 0) <= v /\ v <= Dec(35, 0) THEN "low"
    ELSE IF (Dec(28, 0) <= v /\ v < Dec(30, 0)) \/ (Dec(35, 0) < v /\ v <= Dec(37, 0))
         THEN "medium"
    ELSE "high"

TableDo(v) ==
    IF v >= Dec(6, 0) THEN "low"
    ELSE IF Dec(4, 0) <= v /\ v < Dec(6, 0) THEN "medium"
    ELSE "high"

TableNh3(v) ==
    IF v <= Dec(0, 2000) THEN "low"
    ELSE IF Dec(0, 2000) < v /\ v <= Dec(0, 5000) THEN "medium"
    ELSE "high"

CentreTemp == Lit(26, 0)
CentreSal == Lit(32, 0)
CentreDo == Lit(7, 0)
CentreNh3 == Lit(0, 0)

\* C2: with the other three readings at the safe centre (26, 32, 7, 0.0), the
\* risk returned is the tabulated bucket of the fourth reading, boundaries
\* closed or open exactly as tabulated.
C2_SingleReadingBuckets ==
    out.status = "returned" =>
        /\ (inp.sal_psu = CentreSal /\ inp.do_mgL = CentreDo /\ inp.nh3_mgL = CentreNh3)
              => out.risk = TableTemp(inp.temp_c.v)
        /\ (inp.temp_c = CentreTemp /\ inp.do_mgL = CentreDo /\ inp.nh3_mgL = CentreNh3)
              => out.risk = TableSal(inp.sal_psu.v)
        /\ (inp.temp_c = CentreTemp /\ inp.sal_psu = CentreSal /\ inp.nh3_mgL = CentreNh3)
              => out.risk = TableDo(inp.do_mgL.v)
        /\ (inp.temp_c = CentreTemp /\ inp.sal_psu = CentreSal /\ inp.do_mgL = CentreDo)
              => out.risk = TableNh3(inp.nh3_mgL.v)

\* dissolved oxygen exactly 4.0, the rest at the centre: medium
C2_Witness ==
    /\ out.status = "returned"
    /\ inp = Reading(CentreTemp, CentreSal, Lit(4, 0), CentreNh3)
    /\ out.risk = "medium"

Buckets(i) ==
    << bucket_temp(i.temp_c), bucket_sal(i.sal_psu),
       bucket_do(i.do_mgL), bucket_nh3(i.nh3_mgL) >>

\* C3: risk is high iff some reading is bucketed high, medium iff none is high
\* and some is moderate, low iff all four are safe, and nothing else.
C3_Aggregation ==
    out.status = "returned" =>
        LET b == Buckets(inp)
            anyHigh == \E k \in 1..4 : b[k] = "high"
            anyMod == \E k \in 1..4 : b[k] = "moderate"
        IN  /\ out.risk \in Risks
            /\ (out.risk = "high") <=> anyHigh
            /\ (out.risk = "medium") <=> (~anyHigh /\ anyMod)
            /\ (out.risk = "low") <=> (\A k \in 1..4 : b[k] = "safe")

\* one high reading among three moderate ones: high
C3_Witness ==
    /\ out.status = "returned"
    /\ Buckets(inp) = <<"moderate", "moderate", "high", "moderate">>
    /\ out.risk = "high"

OneName(name, bucket) == IF bucket # "safe" THEN <<name>> ELSE <<>>

\* C4: factors holds exactly the names of the non-safe readings, each once, in
\* the order temp, salinity, dissolved_oxygen, ammonia; it is empty iff risk
\* is low.
C4_Factors ==
    out.status = "returned" =>
        LET b == Buckets(inp)
        IN  /\ out.factors = OneName("temp", b[1]) \o OneName("salinity", b[2])
                             \o OneName("dissolved_oxygen", b[3])
                             \o OneName("ammonia", b[4])
            /\ (out.factors = <<>>) <=> (out.risk = "low")

\* all four readings non-safe: all four names, in the fixed order
C4_Witness ==
    /\ out.status = "returned"
    /\ out.factors = <<"temp", "salinity", "dissolved_oxygen", "ammonia">>
    /\ inp.temp_c.v > inp.sal_psu.v

\* C5: whenever the classifier returns, the evaluator's aggregate decisions
\* agree with it: AGG_has_high iff risk is high, AGG_has_moderate iff risk is
\* medium, both false iff risk is low, never both true.
C5_EvaluatorAgrees ==
    (out.status = "returned" /\ dec # NoDec) =>
        /\ dec.AGG_has_high <=> (out.risk = "high")
        /\ dec.AGG_has_moderate <=> (out.risk = "medium")
        /\ (~dec.AGG_has_high /\ ~dec.AGG_has_moderate) <=> (out.risk = "low")
        /\ ~(dec.AGG_has_high /\ dec.AGG_has_moderate)

\* ammonia exactly 0.02 with a moderate temperature: both say medium
C5_Witness ==
    /\ out.status = "returned" /\ dec # NoDec
    /\ inp.nh3_mgL = Lit(0, 2000) /\ inp.temp_c = Lit(22, 0)
    /\ out.risk = "medium" /\ dec.AGG_has_moderate

\* C9: for every input, also one the classifier rejects, eval_decisions
\* returns a mapping whose keys are exactly the 14 names of DECISIONS, each
\* mapped to a boolean.
C9_DecisionKeys ==
    dec # NoDec =>
        /\ DOMAIN dec = Range(DECISIONS)
        /\ Cardinality(DOMAIN dec) = 14
        /\ Len(DECISIONS) = 14
        /\ \A k \in DOMAIN dec : dec[k] \in BOOLEAN

\* a NaN temperature: rejected by the classifier, evaluated all the same
C9_Witness ==
    /\ dec # NoDec
    /\ out.status = "ValueError"
    /\ inp.temp_c = NaN
    /\ ~dec.VAL_temp_gt0 /\ dec.AGG_has_high

\* C10: on four finite numbers the classifier raises iff one of the four
\* validation decisions of the evaluator is false.
C10_ValidationDecisions ==
    (AllFinite(inp) /\ out.status # "pending" /\ dec # NoDec) =>
        ((out.status = "ValueError") <=>
            ~(dec.VAL_temp_gt0 /\ dec.VAL_sal_gt0 /\ dec.VAL_do_gt0 /\ dec.VAL_nh3_ge0))

\* temperature exactly 0.0: rejected, and VAL_temp_gt0 alone is false
C10_Witness ==
    /\ AllFinite(inp) /\ out.status = "ValueError" /\ dec # NoDec
    /\ inp.temp_c = Lit(0, 0)
    /\ ~dec.VAL_temp_gt0 /\ dec.VAL_sal_gt0 /\ dec.VAL_do_gt0 /\ dec.VAL_nh3_ge0

---------------------------------------------------------------------------
(* Properties of the harnesses (SpecHarness) *)

Terminal == {"done", "ValueError", "KeyError"}

\* the number of cases the running program was given
CorpusSize == IF mode = "c2" THEN Len(tests) + Len(errtests) ELSE Len(rows)

LiteralCorpus == mode = "c2" /\ tests = TESTS /\ errtests = ERROR_TESTS

\* C7: the literal corpus, TESTS then ERROR_TESTS, run through main, ends with
\* True and False observed for each of the 14 decisions and with the verdict
\* "C2 achieved for all tracked decisions".
C7_LiteralCorpusCovers ==
    (LiteralCorpus /\ pc \in Terminal) =>
        /\ pc = "done"
        /\ Len(seen) = 13
        /\ Cardinality(DOMAIN cov) = 14
        /\ \A n \in DOMAIN cov : cov[n] = {TRUE, FALSE}
        /\ missing = <<>>
        /\ verdict = Achieved

\* the literal run has printed its verdict
C7_Witness == LiteralCorpus /\ pc = "done" /\ verdict = Achieved /\ passed = 13

\* some case processed so far evaluated decision n to b
Observed(n, b) == \E i \in 1..Len(seen) : EvalDecisions(seen[i])[n] = b

CovIsWhatWasObserved ==
    mode = "c2" =>
        \A n \in Range(DECISIONS) : \A b \in BOOLEAN : (b \in cov[n]) <=> Observed(n, b)

VerdictIsFaithful ==
    (mode = "c2" /\ pc = "done") =>
        /\ (verdict = Achieved) <=>
              (\A n \in Range(DECISIONS) : TRUE \in cov[n] /\ FALSE \in cov[n])
        /\ verdict \in {Achieved, NotAchieved}
        /\ Range(missing) =
              {n \in Range(DECISIONS) : ~(TRUE \in cov[n] /\ FALSE \in cov[n])}
        /\ Len(missing) = Cardinality(Range(missing))

CovOnlyGrows ==
    mode = "c2" => \A n \in DOMAIN cov : cov[n] \subseteq cov'[n]

\* C8: after any number of cases cov[name] holds b iff some processed case
\* evaluated name to b, entries are never removed, and at the end full
\* coverage is declared only when all 14 decisions have both values, the
\* others being exactly the ones reported missing.
C8_CoverageBookkeeping ==
    /\ [](CovIsWhatWasObserved /\ VerdictIsFaithful)
    /\ [][CovOnlyGrows]_vars

\* a two-case run that ends short of full coverage and says which
\* decisions lack an outcome
C8_Witness ==
    /\ mode = "c2" /\ pc = "done" /\ Len(seen) >= 2
    /\ verdict = NotAchieved
    /\ missing # <<>> /\ Len(missing) < 14
    /\ \E n \in Range(DECISIONS) : cov[n] = {TRUE, FALSE}

====
